---------------------------- MODULE Spec2Model ----------------------------
(***************************************************************************)
(* A model of data_parser.py, the StarryPy3k packet codec library.         *)
(*                                                                         *)
(* A byte string is a sequence of numbers in 0..255.  A Python value is a  *)
(* record [t |-> type name, v |-> payload].  A stream is a byte string     *)
(* with a read position p (the number of bytes consumed so far).  A call   *)
(* that can raise returns a record whose exc field names the exception     *)
(* ("none" when it returned normally).                                     *)
(***************************************************************************)
EXTENDS Integers, Sequences, FiniteSets, TLC

VARIABLES
    cls,      \* the Struct subclass whose parse / build is being called
    plan,     \* the calls still to make, e.g. <<"build", "parse">>
    obj,      \* the value handed to the next build
    ctxArg,   \* the ctx argument handed to build (None when omitted)
    wire,     \* the bytes handed to the next parse
    pos,      \* the stream position after the last parse
    exc,      \* the exception the last call raised, "none" if it returned
    heap,     \* the dict objects allocated by parse (contexts), by identity
    limit,    \* the interpreter's remaining recursion headroom, in frames
    input,    \* the arguments of the first call (never changes)
    decoded,  \* the values returned by the parse calls made so far
    built     \* the byte strings returned by the build calls made so far

vars == <<cls, plan, obj, ctxArg, wire, pos, exc, heap, limit, input, decoded, built>>

-----------------------------------------------------------------------------
(* Bounds of the model.                                                    *)

\* VLQ round trips are checked for every n in 0..MaxSmallInt, and for the
\* values around each power of 128 (see BoundaryNats).
MaxSmallInt == 300

\* The largest number of elements in a repetition stream.
MaxElems == 3

\* The largest recursion headroom (in Python frames) the model explores.
MaxRecursion == 7

-----------------------------------------------------------------------------
(* Python values.                                                          *)

NoneV == [t |-> "None", v |-> <<>>]
BoolV(b) == [t |-> "bool", v |-> b]
IntV(n) == [t |-> "int", v |-> n]
FloatV(bits) == [t |-> "float", v |-> bits]
BytesV(b) == [t |-> "bytes", v |-> b]
StrV(cps) == [t |-> "str", v |-> cps]
TupleV(items) == [t |-> "tuple", v |-> items]
ListV(items) == [t |-> "list", v |-> items]
DictV(pairs) == [t |-> "dict", v |-> pairs]
MappingV(pairs) == [t |-> "mapping", v |-> pairs]
RefV(id) == [t |-> "ref", v |-> id]

\* bool(x)
Truthy(x) ==
    CASE x.t = "None" -> FALSE
      [] x.t = "bool" -> x.v
      [] x.t = "int" -> x.v # 0
      [] x.t \in {"bytes", "str", "tuple", "list", "dict", "mapping"} -> x.v # <<>>
      [] OTHER -> TRUE

\* A normal return of a parse: the value and the new stream position.
Ret(v, p) == [exc |-> "none", v |-> v, p |-> p]
\* A parse that raised e.
Raise(e, p) == [exc |-> e, v |-> NoneV, p |-> p]
\* A normal return of a build, and a build that raised e.
Out(b) == [exc |-> "none", b |-> b]
Fail(e) == [exc |-> e, b |-> <<>>]

-----------------------------------------------------------------------------
(* Bits and streams.                                                       *)

HasBit80(b) == (b \div 128) % 2 = 1
Or80(b) == IF HasBit80(b) THEN b ELSE b + 128
Xor80(b) == IF HasBit80(b) THEN b - 128 ELSE b + 128

Min(a, b) == IF a < b THEN a ELSE b

\* stream.read(n): the next n bytes, or fewer when the stream ends first.
ReadBytes(s, p, n) == SubSeq(s, p + 1, Min(p + n, Len(s)))
ReadPos(s, p, n) == Min(p + n, Len(s))

\* len(stream.peek()): the buffered bytes not yet consumed.
PeekLen(s, p) == Len(s) - p

\* int.from_bytes(b, "big"), unsigned.
RECURSIVE FromBytes(_)
FromBytes(b) ==
    IF b = <<>> THEN 0 ELSE FromBytes(SubSeq(b, 1, Len(b) - 1)) * 256 + b[Len(b)]

\* n.to_bytes(w, "big") for 0 <= n < 256^w.
RECURSIVE ToBytes(_, _)
ToBytes(n, w) ==
    IF w = 0 THEN <<>> ELSE ToBytes(n \div 256, w - 1) \o <<n % 256>>

Pow256(w) == CASE w = 1 -> 256 [] w = 2 -> 65536 [] w = 3 -> 16777216

\* 2^(8w-2): a quarter of the range of a w-byte integer.
HalfRange(w) == 64 * Pow256(w - 1)

-----------------------------------------------------------------------------
(* VLQ                                                                     *)

RECURSIVE VLQ_parse_loop(_, _, _)
VLQ_parse_loop(s, p, value) ==
    IF p >= Len(s)
    THEN Ret(IntV(value), p)              \* ord(b'') raises TypeError: break
    ELSE LET tmp == s[p + 1]
             value2 == value * 128 + (tmp % 128)
         IN  IF ~HasBit80(tmp)
             THEN Ret(IntV(value2), p + 1)
             ELSE VLQ_parse_loop(s, p + 1, value2)

VLQ_parse(s, p) == VLQ_parse_loop(s, p, 0)

RECURSIVE VLQ_build_loop(_, _)
VLQ_build_loop(value, result) ==
    IF value > 0
    THEN LET byte == value % 128
             value2 == value \div 128
             byte2 == IF value2 # 0 THEN Or80(byte) ELSE byte
         IN  VLQ_build_loop(value2, <<byte2>> \o result)
    ELSE result

\* A plausible slip: the continuation bit is left on the last byte.
VLQ_build_fix_keeps_last(result) ==
    IF Len(result) > 1
    THEN [result EXCEPT ![1] = Or80(result[1])]
    ELSE result

\* result[0] |= 0x80; result[-1] ^= 0x80, when len(result) > 1
VLQ_build_fix(result) ==
    IF Len(result) > 1
    THEN LET r1 == [result EXCEPT ![1] = Or80(result[1])]
         IN  [r1 EXCEPT ![Len(r1)] = Xor80(r1[Len(r1)])]
    ELSE result

VLQ_build(o) ==
    IF o.t # "int"
    THEN Fail("TypeError")                \* int(obj)
    ELSE IF o.v = 0
         THEN Out(<<0>>)
         ELSE Out(VLQ_build_fix(VLQ_build_loop(o.v, <<>>)))

-----------------------------------------------------------------------------
(* SignedVLQ                                                               *)

Abs(n) == IF n < 0 THEN -n ELSE n

SignedVLQ_parse(s, p) ==
    LET signed(v) == IF v.v.v % 2 = 0
                     THEN Ret(IntV(v.v.v \div 2), v.p)
                     ELSE Ret(IntV(-((v.v.v \div 2) + 1)), v.p)
    IN  signed(VLQ_parse(s, p))                   \* v = super()._parse(...)

\* A plausible slip: the odd code of a negative number is not taken.
SignedVLQ_value_unsigned(n) == Abs(n * 2)

SignedVLQ_value(n) ==
    LET value == Abs(n * 2)
    IN  IF n < 0 THEN value - 1 ELSE value

SignedVLQ_build(o) ==
    IF o.t # "int"
    THEN Fail("TypeError")
    ELSE VLQ_build(IntV(SignedVLQ_value(o.v)))

-----------------------------------------------------------------------------
(* Fixed-width integers: struct.unpack / struct.pack, big-endian.          *)

\* struct.unpack(fmt, b)[0] for an unsigned format of w bytes.  (The model's
\* integers are 32-bit: a stream handed to UBInt32 starts with a byte < 0x80.)
UnpackUnsigned(s, p, w) ==
    LET b == ReadBytes(s, p, w)
    IN  IF Len(b) # w
        THEN Raise("struct.error", ReadPos(s, p, w))
        ELSE Ret(IntV(FromBytes(b)), p + w)

\* struct.unpack(fmt, b)[0] for a signed (two's complement) format of w bytes.
UnpackSigned(s, p, w) ==
    LET b == ReadBytes(s, p, w)
    IN  IF Len(b) # w
        THEN Raise("struct.error", ReadPos(s, p, w))
        ELSE IF b[1] < 128
             THEN Ret(IntV(FromBytes(b)), p + w)
             ELSE Ret(IntV(FromBytes([b EXCEPT ![1] = b[1] - 128])
                             - HalfRange(w) - HalfRange(w)), p + w)

\* struct.pack(fmt, obj) for an unsigned format of w bytes (w <= 3 or obj < 2^31).
PackUnsigned(o, w) ==
    IF o.t # "int" THEN Fail("struct.error")
    ELSE IF o.v < 0 \/ (w < 4 /\ o.v >= Pow256(w)) THEN Fail("struct.error")
    ELSE Out(ToBytes(o.v, w))

\* struct.pack(fmt, obj) for a signed format of w bytes.
PackSigned(o, w) ==
    IF o.t # "int" THEN Fail("struct.error")
    ELSE IF w < 4 /\ (o.v >= 128 * Pow256(w - 1) \/ o.v < -(128 * Pow256(w - 1)))
         THEN Fail("struct.error")
    ELSE IF o.v >= 0 THEN Out(ToBytes(o.v, w))
    ELSE LET m == (o.v + HalfRange(w)) + HalfRange(w)    \* the low 8w-1 bits
             b == ToBytes(m, w)
         IN  Out([b EXCEPT ![1] = b[1] + 128])

UBInt16_parse(s, p) == UnpackUnsigned(s, p, 2)
UBInt16_build(o) == PackUnsigned(o, 2)
SBInt16_parse(s, p) == UnpackSigned(s, p, 2)
SBInt16_build(o) == PackSigned(o, 2)
UBInt32_parse(s, p) == UnpackUnsigned(s, p, 4)
UBInt32_build(o) == PackUnsigned(o, 4)
SBInt32_parse(s, p) == UnpackSigned(s, p, 4)
SBInt32_build(o) == PackSigned(o, 4)

-----------------------------------------------------------------------------
(* Floats.  A Python float is an IEEE-754 binary64 number, held here as    *)
(* its 8 bytes, most significant first.  (NaNs are not modelled.)          *)

Pow2(k) == 2 ^ k

\* The binary64 bytes of sign s, biased exponent e (11 bits) and a mantissa
\* whose top 23 bits are hi and whose low 29 bits are lo.
Double(s, e, hi, lo) ==
    << s * 128 + e \div 16,
       (e % 16) * 16 + hi \div Pow2(19),
       (hi \div Pow2(11)) % 256,
       (hi \div 8) % 256,
       (hi % 8) * 32 + lo \div Pow2(24),
       (lo \div 65536) % 256,
       (lo \div 256) % 256,
       lo % 256 >>

\* The binary32 bytes of sign s and the 31 bits e * 2^23 + m.
Single(s, em) ==
    << s * 128 + em \div Pow2(24), (em \div 65536) % 256, (em \div 256) % 256, em % 256 >>

\* A subnormal binary32 mantissa m (0 < m < 2^23) times 2^-149, normalised:
\* <<mantissa without its leading one, unbiased exponent>>.
RECURSIVE Normalise(_, _)
Normalise(m, e) ==
    IF m >= Pow2(23) THEN <<m - Pow2(23), e>> ELSE Normalise(2 * m, e - 1)

\* (double) of the binary32 number with bytes b: exact.
Widen(b) ==
    LET s == b[1] \div 128
        e8 == (b[1] % 128) * 2 + b[2] \div 128
        m == (b[2] % 128) * 65536 + b[3] * 256 + b[4]
    IN  IF e8 = 255 THEN Double(s, 2047, m, 0)
        ELSE IF e8 = 0 /\ m = 0 THEN Double(s, 0, 0, 0)
        ELSE IF e8 = 0
             THEN LET n == Normalise(m, -126) IN Double(s, n[2] + 1023, n[1], 0)
        ELSE Double(s, e8 + 896, m, 0)

\* (float) of the binary64 number with bytes b, rounding to nearest, ties to
\* even: [exc, b], exc = "OverflowError" when a finite number rounds to infinity.
Narrow(b) ==
    LET s == b[1] \div 128
        e11 == (b[1] % 128) * 16 + b[2] \div 16
        hi == (b[2] % 16) * Pow2(19) + b[3] * Pow2(11) + b[4] * 8 + b[5] \div 32
        lo == (b[5] % 32) * Pow2(24) + b[6] * 65536 + b[7] * 256 + b[8]
        e == e11 - 1023
    IN  IF e11 = 2047 THEN Out(Single(s, 255 * Pow2(23) + hi))
        ELSE IF e11 = 0 \/ e < -151 THEN Out(Single(s, 0))
        ELSE IF e > 127 THEN Fail("OverflowError")
        ELSE IF e >= -126
             THEN LET up == lo > Pow2(28) \/ (lo = Pow2(28) /\ hi % 2 = 1)
                      em == (e + 127) * Pow2(23) + hi + (IF up THEN 1 ELSE 0)
                  IN  IF em >= 255 * Pow2(23)
                      THEN Fail("OverflowError")
                      ELSE Out(Single(s, em))
        ELSE LET shift == -126 - e
                 sig == Pow2(23) + hi
                 q == sig \div Pow2(shift)
                 rem == sig % Pow2(shift)
                 half == Pow2(shift - 1)
                 up == rem > half \/ (rem = half /\ (lo # 0 \/ q % 2 = 1))
             IN  Out(Single(s, q + (IF up THEN 1 ELSE 0)))

BFloat32_parse(s, p) ==
    LET b == ReadBytes(s, p, 4)
    IN  IF Len(b) # 4
        THEN Raise("struct.error", ReadPos(s, p, 4))
        ELSE Ret(FloatV(Widen(b)), p + 4)

BFloat32_build(o) ==
    IF o.t # "float" THEN Fail("struct.error") ELSE Narrow(o.v)

\* struct.unpack(">d", ...) is returned whole: a 1-tuple, not its element.
BDouble_parse(s, p) ==
    LET b == ReadBytes(s, p, 8)
    IN  IF Len(b) # 8
        THEN Raise("struct.error", ReadPos(s, p, 8))
        ELSE Ret(TupleV(<<FloatV(b)>>), p + 8)

BDouble_build(o) ==
    IF o.t # "float" THEN Fail("struct.error") ELSE Out(o.v)

-----------------------------------------------------------------------------
(* UTF-8.  A str is its sequence of code points.                           *)

IsCont(b) == b >= 128 /\ b < 192

\* bytes.decode("utf-8"): [ok, cps]; ok is FALSE for UnicodeDecodeError.
RECURSIVE Utf8Decode(_, _, _)
Utf8Decode(b, i, acc) ==
    IF i > Len(b) THEN [ok |-> TRUE, cps |-> acc]
    ELSE LET b0 == b[i]
             bad == [ok |-> FALSE, cps |-> <<>>]
         IN  IF b0 < 128 THEN Utf8Decode(b, i + 1, Append(acc, b0))
             ELSE IF b0 >= 194 /\ b0 <= 223
                  THEN IF i + 1 <= Len(b) /\ IsCont(b[i + 1])
                       THEN Utf8Decode(b, i + 2,
                                Append(acc, (b0 - 192) * 64 + (b[i + 1] - 128)))
                       ELSE bad
             ELSE IF b0 >= 224 /\ b0 <= 239
                  THEN IF i + 2 <= Len(b) /\ IsCont(b[i + 1]) /\ IsCont(b[i + 2])
                       THEN LET cp == (b0 - 224) * 4096 + (b[i + 1] - 128) * 64
                                        + (b[i + 2] - 128)
                            IN  IF cp < 2048 \/ (cp >= 55296 /\ cp <= 57343)
                                THEN bad
                                ELSE Utf8Decode(b, i + 3, Append(acc, cp))
                       ELSE bad
             ELSE IF b0 >= 240 /\ b0 <= 244
                  THEN IF i + 3 <= Len(b) /\ IsCont(b[i + 1]) /\ IsCont(b[i + 2])
                          /\ IsCont(b[i + 3])
                       THEN LET cp == (b0 - 240) * 262144 + (b[i + 1] - 128) * 4096
                                        + (b[i + 2] - 128) * 64 + (b[i + 3] - 128)
                            IN  IF cp < 65536 \/ cp > 1114111
                                THEN bad
                                ELSE Utf8Decode(b, i + 4, Append(acc, cp))
                       ELSE bad
             ELSE bad

\* str.encode("utf-8"): [exc, b]; a lone surrogate raises UnicodeEncodeError.
RECURSIVE Utf8Encode(_, _, _)
Utf8Encode(cps, i, acc) ==
    IF i > Len(cps) THEN Out(acc)
    ELSE LET cp == cps[i]
         IN  IF cp < 128 THEN Utf8Encode(cps, i + 1, Append(acc, cp))
             ELSE IF cp < 2048
                  THEN Utf8Encode(cps, i + 1,
                           acc \o <<192 + cp \div 64, 128 + (cp % 64)>>)
             ELSE IF cp >= 55296 /\ cp <= 57343 THEN Fail("UnicodeEncodeError")
             ELSE IF cp < 65536
                  THEN Utf8Encode(cps, i + 1,
                           acc \o <<224 + cp \div 4096, 128 + ((cp \div 64) % 64),
                                    128 + (cp % 64)>>)
             ELSE Utf8Encode(cps, i + 1,
                      acc \o <<240 + cp \div 262144, 128 + ((cp \div 4096) % 64),
                               128 + ((cp \div 64) % 64), 128 + (cp % 64)>>)

-----------------------------------------------------------------------------
(* Byte, Flag                                                              *)

\* int.from_bytes(stream.read(1), ...): 0 when the stream has ended.
Byte_parse(s, p) == Ret(IntV(FromBytes(ReadBytes(s, p, 1))), ReadPos(s, p, 1))

Byte_build(o) ==
    IF o.t # "int" THEN Fail("AttributeError")
    ELSE IF o.v < 0 \/ o.v > 255 THEN Fail("OverflowError")
    ELSE Out(ToBytes(o.v, 1))

\* bool(stream.read(1)): whether a byte was read, whatever the byte.
Flag_parse(s, p) == Ret(BoolV(ReadBytes(s, p, 1) # <<>>), ReadPos(s, p, 1))

\* struct.pack(">?", obj)
Flag_build(o) == Out(IF Truthy(o) THEN <<1>> ELSE <<0>>)

-----------------------------------------------------------------------------
(* StarByteArray, StarString, UUID                                         *)

StarByteArray_parse(s, p) ==
    LET read(length) == Ret(BytesV(ReadBytes(s, length.p, length.v.v)),
                            ReadPos(s, length.p, length.v.v))
    IN  read(VLQ_parse(s, p))                     \* length = VLQ.parse(...)

StarByteArray_build(o) ==
    IF o.t \notin {"bytes", "str", "tuple", "list", "dict", "mapping"}
    THEN Fail("TypeError")                          \* len(obj)
    ELSE LET l == VLQ_build(IntV(Len(o.v)))
         IN  IF o.t # "bytes" THEN Fail("TypeError")    \* bytes + obj
             ELSE Out(l.b \o o.v)

StarString_parse(s, p) ==
    LET decoded_or(data, text) ==
            IF text.ok THEN Ret(StrV(text.cps), data.p) ELSE data
        \* try: data.decode("utf-8"); except UnicodeDecodeError: return data
        decode(data) == decoded_or(data, Utf8Decode(data.v.v, 1, <<>>))
    IN  decode(StarByteArray_parse(s, p))         \* data = super()._parse(...)

StarString_build(o) ==
    IF o.t # "str" THEN Fail("AttributeError")          \* obj.encode
    ELSE LET encoded(e) == IF e.exc # "none" THEN e
                           ELSE StarByteArray_build(BytesV(e.b))
         IN  encoded(Utf8Encode(o.v, 1, <<>>))

HexDigit(n) == IF n < 10 THEN 48 + n ELSE 87 + n

\* binascii.hexlify(b)
RECURSIVE Hexlify(_)
Hexlify(b) ==
    IF b = <<>> THEN <<>>
    ELSE <<HexDigit(b[1] \div 16), HexDigit(b[1] % 16)>> \o Hexlify(Tail(b))

UUID_parse(s, p) == Ret(BytesV(Hexlify(ReadBytes(s, p, 16))), ReadPos(s, p, 16))

UUID_build(o) ==
    IF Truthy(o)
    THEN IF o.t # "bytes" THEN Fail("TypeError")        \* res += obj
         ELSE Out(Flag_build(BoolV(TRUE)).b \o o.v)
    ELSE Out(Flag_build(BoolV(FALSE)).b)

-----------------------------------------------------------------------------
(* Python dicts: a sequence of <<key, value>> pairs in insertion order.    *)

HasKey(pairs, k) == \E i \in 1..Len(pairs) : pairs[i][1] = k

Lookup(pairs, k) == pairs[CHOOSE i \in 1..Len(pairs) : pairs[i][1] = k][2]

\* d[k] = x: a key already present keeps its place.
SetItem(pairs, k, x) ==
    IF HasKey(pairs, k)
    THEN [i \in 1..Len(pairs) |-> IF pairs[i][1] = k THEN <<k, x>> ELSE pairs[i]]
    ELSE Append(pairs, <<k, x>>)

Keys(pairs) == [i \in 1..Len(pairs) |-> pairs[i][1]]

-----------------------------------------------------------------------------
(* Variant, VariantVariant, DictVariant, StringSet, WorldChunks            *)

\* value.decode('utf-8') of a bytes value, kept as bytes when that fails.
Redecode(x) ==
    LET decoded_or(text) == IF text.ok THEN StrV(text.cps) ELSE x
    IN  IF x.t = "bytes" THEN decoded_or(Utf8Decode(x.v, 1, <<>>)) ELSE x

RECURSIVE Variant_parse(_, _)
RECURSIVE VariantVariant_items(_, _, _, _)
RECURSIVE DictVariant_items(_, _, _, _)

\* [Variant.parse(stream, ctx) for _ in range(l)]
VariantVariant_items(s, p, l, acc) ==
    LET item(x) == IF x.exc # "none" THEN x
                   ELSE VariantVariant_items(s, x.p, l - 1, Append(acc, x.v))
    IN  IF l <= 0 THEN Ret(ListV(acc), p) ELSE item(Variant_parse(s, p))

VariantVariant_parse(s, p) ==
    LET items(l) == VariantVariant_items(s, l.p, l.v.v, <<>>)
    IN  items(VLQ_parse(s, p))                    \* l = VLQ.parse(...)

\* for _ in range(l): key = StarString.parse(...); value = Variant.parse(...)
DictVariant_items(s, p, l, c) ==
    LET pair(key, value) ==
            IF value.exc # "none" THEN value
            ELSE DictVariant_items(s, value.p, l - 1,
                     SetItem(c, key.v, Redecode(value.v)))
        entry(key) == pair(key, Variant_parse(s, key.p))
    IN  IF l <= 0 THEN Ret(DictV(c), p) ELSE entry(StarString_parse(s, p))

DictVariant_parse(s, p) ==
    LET items(l) == DictVariant_items(s, l.p, l.v.v, <<>>)
    IN  items(VLQ_parse(s, p))                    \* l = VLQ.parse(...)

Variant_parse(s, p) ==
    LET branch(x) ==
            CASE x.v.v = 1 -> Ret(NoneV, x.p)
              [] x.v.v = 2 -> BDouble_parse(s, x.p)
              [] x.v.v = 3 -> Flag_parse(s, x.p)
              [] x.v.v = 4 -> SignedVLQ_parse(s, x.p)
              [] x.v.v = 5 -> StarString_parse(s, x.p)
              [] x.v.v = 6 -> VariantVariant_parse(s, x.p)
              [] x.v.v = 7 -> DictVariant_parse(s, x.p)
              [] OTHER -> Ret(NoneV, x.p)       \* no branch taken: returns None
    IN  branch(Byte_parse(s, p))                  \* x = Byte.parse(stream)

RECURSIVE StringSet_items(_, _, _, _)
StringSet_items(s, p, l, c) ==
    LET item(value) ==
            StringSet_items(s, value.p, l - 1, Append(c, Redecode(value.v)))
    IN  IF l <= 0 THEN Ret(ListV(c), p) ELSE item(StarString_parse(s, p))

StringSet_parse(s, p) ==
    LET items(l) == StringSet_items(s, l.p, l.v.v, <<>>)
    IN  items(VLQ_parse(s, p))                    \* l = VLQ.parse(...)

RECURSIVE WorldChunks_items(_, _, _, _, _)
WorldChunks_items(s, p, l, n, c) ==
    LET chunk(v1, sep, v2) ==
            WorldChunks_items(s, ReadPos(s, v2.p, v2.v.v), l, n + 1,
                Append(c, TupleV(<<IntV(n), v1.v,
                                   BytesV(ReadBytes(s, v1.p, v1.v.v)), sep.v,
                                   v2.v, BytesV(ReadBytes(s, v2.p, v2.v.v))>>)))
        second(v1, sep) == chunk(v1, sep, VLQ_parse(s, sep.p))
        first(v1) == second(v1, Byte_parse(s, ReadPos(s, v1.p, v1.v.v)))
    IN  IF n >= l THEN Ret(ListV(c), p) ELSE first(VLQ_parse(s, p))

WorldChunks_parse(s, p) ==
    LET result(l, c) ==
            Ret(MappingV(<< <<"length", l.v>>, <<"content", c.v>> >>), c.p)
        content(l) == result(l, WorldChunks_items(s, l.p, l.v.v, 0, <<>>))
    IN  content(VLQ_parse(s, p))                  \* l = VLQ.parse(...)

-----------------------------------------------------------------------------
(* The classes: their fields (MetaStruct collects them in declaration      *)
(* order) and their _parse / _build.                                       *)

\* The repetition classes of the model: subclasses of GreedyArray, which the
\* library itself leaves to its users, each declaring one element field.
GreedyClasses == {"GreedyBytes", "GreedyUBInt16s", "GreedyStrings"}

IsGreedy(c) == c \in GreedyClasses

\* cls._struct_fields
Fields(c) ==
    CASE c = "SpawnCoordinates" -> << <<"x", "BFloat32">>, <<"y", "BFloat32">> >>
      [] c = "ProtocolRequest" -> << <<"client_build", "UBInt32">> >>
      [] c = "ProtocolResponse" -> << <<"server_response", "Byte">> >>
      [] c = "ClientConnect" ->
            << <<"asset_digest", "StarByteArray">>, <<"uuid", "UUID">>,
               <<"name", "StarString">>, <<"species", "StarString">>,
               <<"shipdata", "WorldChunks">>, <<"ship_level", "UBInt32">>,
               <<"max_fuel", "UBInt32">>, <<"junk1", "UBInt32">>,
               <<"ship_upgrades", "StringSet">>, <<"intro_complete", "Byte">>,
               <<"account", "StarString">> >>
      [] c = "ConnectSuccess" ->
            << <<"client_id", "VLQ">>, <<"server_uuid", "UUID">>,
               <<"planet_orbital_levels", "SBInt32">>,
               <<"satellite_orbital_levels", "SBInt32">>,
               <<"chunk_size", "SBInt32">>, <<"xy_min", "SBInt32">>,
               <<"xy_max", "SBInt32">>, <<"z_min", "SBInt32">>,
               <<"z_max", "SBInt32">> >>
      [] c = "ConnectFailure" -> << <<"reason", "StarString">> >>
      [] c = "ClientDisconnectRequest" -> << <<"request", "Byte">> >>
      [] c = "ServerDisconnect" -> << <<"reason", "StarString">> >>
      [] c = "ChatReceived" ->
            << <<"mode", "Byte">>, <<"channel", "StarString">>,
               <<"client_id", "UBInt16">>, <<"name", "StarString">>,
               <<"message", "StarString">> >>
      [] c = "PlayerWarp" ->
            << <<"warp_type", "Byte">>, <<"everything_else", "StarString">> >>
      [] c = "ChatSent" -> << <<"message", "StarString">>, <<"send_mode", "Byte">> >>
      [] c = "WorldStart" ->
            << <<"template_data", "Variant">>, <<"sky_data", "StarByteArray">>,
               <<"weather_data", "StarByteArray">>, <<"spawn", "SpawnCoordinates">>,
               <<"respawn_in_world", "Flag">>, <<"world_properties", "Variant">>,
               <<"client_id", "UBInt16">>, <<"local_interpolation", "Flag">> >>
      [] c = "WorldStop" -> << <<"reason", "StarString">> >>
      [] c = "GiveItem" ->
            << <<"name", "StarString">>, <<"count", "VLQ">>,
               <<"variant_type", "Byte">>, <<"description", "StarString">> >>
      [] c = "GreedyBytes" -> << <<"element", "Byte">> >>
      [] c = "GreedyUBInt16s" -> << <<"element", "UBInt16">> >>
      [] c = "GreedyStrings" -> << <<"element", "StarString">> >>
      [] OTHER -> <<>>

\* cls._parse(stream, ctx) of a class without fields.
LeafParse(c, s, p) ==
    CASE c = "VLQ" -> VLQ_parse(s, p)
      [] c = "SignedVLQ" -> SignedVLQ_parse(s, p)
      [] c = "UBInt16" -> UBInt16_parse(s, p)
      [] c = "SBInt16" -> SBInt16_parse(s, p)
      [] c = "UBInt32" -> UBInt32_parse(s, p)
      [] c = "SBInt32" -> SBInt32_parse(s, p)
      [] c = "BFloat32" -> BFloat32_parse(s, p)
      [] c = "StarByteArray" -> StarByteArray_parse(s, p)
      [] c = "StarString" -> StarString_parse(s, p)
      [] c = "Byte" -> Byte_parse(s, p)
      [] c = "Flag" -> Flag_parse(s, p)
      [] c = "BDouble" -> BDouble_parse(s, p)
      [] c = "UUID" -> UUID_parse(s, p)
      [] c = "VariantVariant" -> VariantVariant_parse(s, p)
      [] c = "DictVariant" -> DictVariant_parse(s, p)
      [] c = "Variant" -> Variant_parse(s, p)
      [] c = "StringSet" -> StringSet_parse(s, p)
      [] c = "WorldChunks" -> WorldChunks_parse(s, p)
      [] OTHER -> Raise("NotImplementedError", p)     \* Struct._parse

\* The payload length BasePacket writes: len(obj['data']), taken before a
\* text payload is encoded.
BasePacket_length(data, ctx) ==
    LET v == Len(data.v)
    IN  IF ctx.t = "mapping" /\ HasKey(ctx.v, "compressed")
           /\ Truthy(Lookup(ctx.v, "compressed"))
        THEN -Abs(v)
        ELSE v

BasePacket_build(o, ctx) ==
    IF o.t # "mapping" THEN Fail("TypeError")
    ELSE IF ~HasKey(o.v, "id") \/ ~HasKey(o.v, "data") THEN Fail("KeyError")
    ELSE LET packet(id, l, payload) ==
                 IF payload.exc # "none" THEN payload
                 ELSE Out(id.b \o l.b \o payload.b)
             body(id, data) ==
                 IF id.exc # "none" THEN id
                 ELSE IF data.t \notin {"bytes", "str"} THEN Fail("TypeError")
                 ELSE packet(id, SignedVLQ_build(IntV(BasePacket_length(data, ctx))),
                             IF data.t = "bytes" THEN Out(data.v)
                             ELSE Utf8Encode(data.v, 1, <<>>))
         IN  body(Byte_build(Lookup(o.v, "id")), Lookup(o.v, "data"))

\* cls._build(obj, ctx) of a class without fields.
LeafBuild(c, o, ctx) ==
    CASE c = "VLQ" -> VLQ_build(o)
      [] c = "SignedVLQ" -> SignedVLQ_build(o)
      [] c = "UBInt16" -> UBInt16_build(o)
      [] c = "SBInt16" -> SBInt16_build(o)
      [] c = "UBInt32" -> UBInt32_build(o)
      [] c = "SBInt32" -> SBInt32_build(o)
      [] c = "BFloat32" -> BFloat32_build(o)
      [] c = "StarByteArray" -> StarByteArray_build(o)
      [] c = "StarString" -> StarString_build(o)
      [] c = "Byte" -> Byte_build(o)
      [] c = "Flag" -> Flag_build(o)
      [] c = "BDouble" -> BDouble_build(o)
      [] c = "UUID" -> UUID_build(o)
      [] c = "BasePacket" -> BasePacket_build(o, ctx)
      [] OTHER -> Fail("NotImplementedError")         \* Struct._build

-----------------------------------------------------------------------------
(* Struct.parse, Struct.parse_stream, GreedyArray.parse_stream.            *)
(* h is the heap of dicts, ctx the index in it of the context dict (0 for  *)
(* None), d the number of frames of these methods already on the stack.    *)

PRet(v, p, h) == [exc |-> "none", v |-> v, p |-> p, h |-> h]
PRaise(e, p, h) == [exc |-> e, v |-> NoneV, p |-> p, h |-> h]

RECURSIVE Struct_parse(_, _, _, _, _, _)
RECURSIVE Struct_parse_fields(_, _, _, _, _, _, _)
RECURSIVE GreedyArray_loop(_, _, _, _, _, _, _, _)

\* for name, struct in cls._struct_fields: ctx[name] = struct.parse(stream, ctx=ctx)
Struct_parse_fields(fields, i, s, p, h, ctx, d) ==
    LET bind(name, r) ==                          \* ctx[name] = ...
            IF r.exc # "none" THEN r
            ELSE Struct_parse_fields(fields, i + 1, s, r.p,
                     [r.h EXCEPT ![ctx] = SetItem(@, name, r.v)], ctx, d)
        field(f) == bind(f[1], Struct_parse(f[2], s, p, h, ctx, d))
    IN  IF i > Len(fields) THEN PRet(RefV(ctx), p, h)         \* res = ctx
        ELSE field(fields[i])

Struct_parse_stream(c, s, p, h, ctx, d) ==
    LET leaf(r) == [exc |-> r.exc, v |-> r.v, p |-> r.p, h |-> h]
        body(fields) == IF fields # <<>>
                        THEN Struct_parse_fields(fields, 1, s, p, h, ctx, d)
                        ELSE leaf(LeafParse(c, s, p))
    IN  body(Fields(c))

\* The while loop of GreedyArray.parse_stream; `finally: return res` turns
\* an exception of the element parse into a normal return.
GreedyArray_loop(c, s, p, h, ctx, d, res, last) ==
    LET element(r, l) ==
            IF r.exc # "none" THEN PRet(ListV(res), r.p, r.h)
            ELSE GreedyArray_loop(c, s, r.p, r.h, ctx, d, Append(res, r.v), l)
        step(l) == IF l = 0 \/ last = l THEN PRet(ListV(res), p, h)
                   ELSE element(Struct_parse(c, s, p, h, ctx, d), l)  \* super().parse
    IN  step(PeekLen(s, p))

GreedyArray_parse_stream(c, s, p, h, ctx, d) ==
    GreedyArray_loop(c, s, p, h, ctx, d, <<>>, -1)

\* Struct.parse: a fresh dict when no ctx is given, then cls.parse_stream.
\* Each of the two calls takes a frame: past the limit, RecursionError.
Struct_parse(c, s, p, h, ctx, d) ==
    LET stream(h1, ctx1) ==
            IF IsGreedy(c)
            THEN GreedyArray_parse_stream(c, s, p, h1, ctx1, d + 2)
            ELSE Struct_parse_stream(c, s, p, h1, ctx1, d + 2)
    IN  IF d + 2 > limit THEN PRaise("RecursionError", p, h)
        ELSE IF ctx = 0 THEN stream(Append(h, <<>>), Len(h) + 1)   \* ctx = {}
        ELSE stream(h, ctx)

-----------------------------------------------------------------------------
(* Struct.build                                                            *)

RECURSIVE Struct_build(_, _, _, _)
RECURSIVE Struct_build_fields(_, _, _, _, _)

\* for name, struct in cls._struct_fields: res += struct.build(...)
Struct_build_fields(fields, i, o, res, ctx) ==
    LET add(r) == IF r.exc # "none" THEN r
                  ELSE Struct_build_fields(fields, i + 1, o, res \o r.b, ctx)
        \* obj[name] if name in obj, else None
        field(f) == add(Struct_build(f[2],
                            IF o.t = "mapping" /\ HasKey(o.v, f[1])
                            THEN Lookup(o.v, f[1]) ELSE NoneV,
                            NoneV, ctx))
    IN  IF i > Len(fields) THEN Out(res)
        ELSE IF o.t \notin {"mapping", "dict", "list", "tuple", "str", "bytes"}
             THEN Fail("TypeError")                     \* name in obj
        ELSE field(fields[i])

Struct_build(c, o, res, ctx) ==
    LET body(fields, o0, res0, ctx0) ==
            IF fields # <<>>
            THEN IF res0.t # "bytes" THEN Fail("TypeError")     \* res += bytes
                 ELSE Struct_build_fields(fields, 1, o0, res0.v, ctx0)
            ELSE LeafBuild(c, o0, ctx0)
    IN  body(Fields(c),
             IF o.t = "ref" THEN MappingV(heap[o.v]) ELSE o,
             IF res.t = "None" THEN BytesV(<<>>) ELSE res,
             IF ctx.t = "None" THEN MappingV(<<>>) ELSE ctx)

-----------------------------------------------------------------------------
(* The calls.  A run makes the calls of its plan one after the other: a    *)
(* build hands its bytes to the next parse, a parse its value to the next  *)
(* build; an exception ends the run.                                       *)

Start(c, pl, o, ca, w, lim) ==
    /\ cls = c
    /\ plan = pl
    /\ obj = o
    /\ ctxArg = ca
    /\ wire = w
    /\ pos = 0
    /\ exc = "none"
    /\ heap = <<>>
    /\ limit = lim
    /\ input = [cls |-> c, plan |-> pl, obj |-> o, ctx |-> ca, wire |-> w]
    /\ decoded = <<>>
    /\ built = <<>>

\* The unsigned integers tried: the small ones, and those around the sizes
\* at which the encoding grows by a byte.
Naturals35 ==
    (0..MaxSmallInt) \cup
    {127, 128, 129, 16383, 16384, 16385, 2097151, 2097152, 2097153,
     268435455, 268435456, 268435457, 2147483647}

\* The signed integers tried.
Integers34 ==
    ((-MaxSmallInt)..MaxSmallInt) \cup
    {n : n \in {63, 64, 65, 8191, 8192, 8193, 1048575, 1048576, 1048577,
                134217727, 134217728, 134217729, 1073741823}} \cup
    {-n : n \in {63, 64, 65, 8191, 8192, 8193, 1048575, 1048576, 1048577,
                 134217727, 134217728, 134217729, 1073741823}}

InitVLQ ==
    \E n \in Naturals35 :
        Start("VLQ", <<"build", "parse">>, IntV(n), NoneV, <<>>, MaxRecursion)

InitSignedVLQ ==
    \E n \in Integers34 :
        Start("SignedVLQ", <<"build", "parse">>, IntV(n), NoneV, <<>>, MaxRecursion)

\* The streams tried on a class without fields: complete encodings.
Samples(c) ==
    CASE c = "VLQ" -> {<<0>>, <<5>>, <<129, 0>>, <<255, 255, 127>>}
      [] c = "UBInt16" -> {<<0, 0>>, <<1, 2>>, <<128, 0>>, <<255, 255>>}
      [] c = "SBInt16" -> {<<0, 0>>, <<1, 2>>, <<128, 0>>, <<255, 255>>}
      [] c = "UBInt32" -> {<<0, 0, 0, 0>>, <<0, 1, 2, 3>>, <<127, 255, 255, 255>>}
      [] c = "SBInt32" -> {<<0, 0, 0, 0>>, <<0, 1, 2, 3>>, <<128, 0, 0, 0>>,
                           <<255, 255, 255, 255>>}
      [] c = "BFloat32" -> {<<63, 128, 0, 0>>, <<0, 0, 0, 1>>, <<192, 73, 15, 219>>,
                            <<127, 128, 0, 0>>}
      [] c = "BDouble" -> {<<63, 240, 0, 0, 0, 0, 0, 0>>, <<192, 4, 0, 0, 0, 0, 0, 1>>}
      [] c = "Byte" -> {<<0>>, <<7>>, <<255>>}
      [] c = "Flag" -> {<<0>>, <<1>>}
      [] c = "StarByteArray" -> {<<0>>, <<2, 1, 2>>, <<1, 255>>}
      [] c = "StarString" -> {<<0>>, <<1, 107>>, <<2, 195, 169>>, <<1, 255>>,
                              <<6, 98, 97, 110, 110, 101, 100>>}
      [] c = "UUID" -> {<<1, 35, 69, 103, 137, 171, 205, 239,
                          16, 50, 84, 118, 152, 186, 220, 254>>}
      [] c = "StringSet" -> {<<0>>, <<1, 1, 97>>, <<2, 1, 97, 2, 195, 169>>}

Prefixes(S) == UNION {{SubSeq(w, 1, k) : k \in 0..Len(w)} : w \in S}

\* The classes that implement _parse and _build.
LeafBoth ==
    {"UBInt16", "SBInt16", "UBInt32", "SBInt32", "BFloat32", "BDouble", "Byte",
     "Flag", "StarByteArray", "StarString", "UUID"}

\* parse, then build of the value parsed, then parse again; the stream is a
\* complete encoding or one cut short.
InitLeaf ==
    \E c \in LeafBoth : \E w \in Prefixes(Samples(c)) :
        Start(c, <<"parse", "build", "parse">>, NoneV, NoneV, w, MaxRecursion)

\* parse alone, for the classes of _parse that the round trips above leave out.
InitDecode ==
    \E c \in {"VLQ", "StringSet"} : \E w \in Prefixes(Samples(c)) :
        Start(c, <<"parse">>, NoneV, NoneV, w, MaxRecursion)

\* The streams tried on Variant that start with no tag of the format.
BadTagWires ==
    {<<>>} \cup {<<tag>> \o rest : tag \in {0, 8, 9, 255},
                                  rest \in {<<>>, <<1>>, <<4, 10>>}}

InitBadTag ==
    \E w \in BadTagWires :
        Start("Variant", <<"parse">>, NoneV, NoneV, w, MaxRecursion)

\* The envelopes built: ids, byte and text payloads, with and without the
\* compressed flag in the context.
PacketPayloads ==
    {BytesV(<<>>), BytesV(<<97>>), BytesV(<<0, 255>>), BytesV([i \in 1..70 |-> 97]),
     StrV(<<>>), StrV(<<97, 98>>), StrV(<<233>>), StrV(<<97, 8364>>),
     StrV(<<128512>>), StrV(<<98, 98, 98, 98, 98, 98, 98, 98>>)}

PacketContexts ==
    {NoneV, MappingV(<<>>), MappingV(<< <<"compressed", BoolV(FALSE)>> >>),
     MappingV(<< <<"compressed", BoolV(TRUE)>> >>)}

InitPacket ==
    \E id \in {0, 5, 255} : \E data \in PacketPayloads : \E ca \in PacketContexts :
        Start("BasePacket", <<"build">>,
              MappingV(<< <<"id", IntV(id)>>, <<"data", data>> >>), ca, <<>>,
              MaxRecursion)

\* The Variant values whose encodings are tried: scalars, sequences of up to
\* two scalars, maps of up to two keys, and some nested ones.
VariantScalars ==
    {NoneV, FloatV(<<64, 4, 0, 0, 0, 0, 0, 0>>), BoolV(TRUE), IntV(0), IntV(5),
     IntV(-3), StrV(<<>>), StrV(<<107>>), StrV(<<233>>)}

VariantValues ==
    VariantScalars
    \cup {ListV(<<>>), DictV(<<>>)}
    \cup {ListV(<<a>>) : a \in VariantScalars}
    \cup {ListV(<<a, b>>) : a \in VariantScalars, b \in VariantScalars}
    \cup {DictV(<< <<StrV(<<107>>), a>> >>) : a \in VariantScalars}
    \cup {DictV(<< <<StrV(<<107>>), a>>, <<StrV(<<97>>), b>> >>) :
              a \in VariantScalars, b \in VariantScalars}
    \cup {ListV(<<ListV(<<a>>), DictV(<< <<StrV(<<107>>), a>> >>)>>) :
              a \in VariantScalars}
    \cup {DictV(<< <<StrV(<<107>>), ListV(<<a, DictV(<<>>)>>)>> >>) :
              a \in VariantScalars}

\* The wire format of a Variant value: the tag byte, then the payload.
RECURSIVE VariantWire(_)
RECURSIVE VariantItemsWire(_)
RECURSIVE VariantPairsWire(_)
VariantItemsWire(items) ==
    IF items = <<>> THEN <<>>
    ELSE VariantWire(Head(items)) \o VariantItemsWire(Tail(items))
VariantPairsWire(pairs) ==
    IF pairs = <<>> THEN <<>>
    ELSE StarString_build(Head(pairs)[1]).b \o VariantWire(Head(pairs)[2])
             \o VariantPairsWire(Tail(pairs))
VariantWire(x) ==
    CASE x.t = "None" -> <<1>>
      [] x.t = "float" -> <<2>> \o x.v
      [] x.t = "bool" -> <<3, IF x.v THEN 1 ELSE 0>>
      [] x.t = "int" -> <<4>> \o SignedVLQ_build(x).b
      [] x.t = "str" -> <<5>> \o StarString_build(x).b
      [] x.t = "list" ->
            <<6>> \o VLQ_build(IntV(Len(x.v))).b \o VariantItemsWire(x.v)
      [] x.t = "dict" ->
            <<7>> \o VLQ_build(IntV(Len(x.v))).b \o VariantPairsWire(x.v)

\* Variant.parse of the encoding of a value; obj holds the value encoded.
InitVariant ==
    \E x \in VariantValues :
        Start("Variant", <<"parse">>, x, NoneV, VariantWire(x), MaxRecursion)

\* The element encodings tried in a repetition stream.
ElementSamples(c) ==
    CASE c = "GreedyBytes" -> {<<7>>, <<255>>}
      [] c = "GreedyUBInt16s" -> {<<1, 2>>, <<128, 0>>}
      [] c = "GreedyStrings" -> {<<1, 107>>, <<2, 195, 169>>}

RECURSIVE Concat(_)
Concat(ws) == IF ws = <<>> THEN <<>> ELSE Head(ws) \o Concat(Tail(ws))

\* parse of a stream of k complete element encodings, with any recursion
\* headroom; obj holds the k elements as the element class decodes them.
InitGreedy ==
    \E c \in GreedyClasses : \E k \in 0..MaxElems :
    \E ws \in [1..k -> ElementSamples(c)] : \E lim \in 4..MaxRecursion :
        Start(c, <<"parse">>,
              ListV([i \in 1..k |-> LeafParse(Fields(c)[1][2], ws[i], 0).v]),
              NoneV, Concat(ws), lim)

\* The message schemas.
Catalog ==
    {"ProtocolRequest", "ProtocolResponse", "ClientConnect", "ConnectSuccess",
     "ConnectFailure", "ClientDisconnectRequest", "ServerDisconnect",
     "ChatReceived", "PlayerWarp", "ChatSent", "WorldStart", "WorldStop",
     "GiveItem"}

\* The values tried for a field of class c in an instance handed to build.
ValueSamples(c) ==
    CASE c = "VLQ" -> {IntV(1), IntV(300)}
      [] c = "UBInt16" -> {IntV(515)}
      [] c = "UBInt32" -> {IntV(1644)}
      [] c = "SBInt32" -> {IntV(-2), IntV(66051)}
      [] c = "Byte" -> {IntV(0), IntV(7)}
      [] c = "Flag" -> {BoolV(TRUE), BoolV(FALSE)}
      [] c = "StarByteArray" -> {BytesV(<<1, 2>>)}
      [] c = "StarString" -> {StrV(<<98, 97, 110, 110, 101, 100>>), StrV(<<233>>)}
      [] c = "UUID" -> {BytesV(<<1, 35, 69, 103, 137, 171, 205, 239,
                                 16, 50, 84, 118, 152, 186, 220, 254>>)}
      [] c = "Variant" -> {IntV(5)}
      [] c = "StringSet" -> {ListV(<<StrV(<<97>>)>>)}
      [] c = "WorldChunks" ->
            {MappingV(<< <<"length", IntV(0)>>, <<"content", ListV(<<>>)>> >>)}
      [] c = "SpawnCoordinates" ->
            {MappingV(<< <<"x", FloatV(<<63, 240, 0, 0, 0, 0, 0, 0>>)>>,
                         <<"y", FloatV(<<192, 4, 0, 0, 0, 0, 0, 0>>)>> >>)}

\* The instances of schema c: every field, from field i on, with a value tried.
RECURSIVE Instances(_, _)
Instances(c, i) ==
    IF i > Len(Fields(c)) THEN {<<>>}
    ELSE {<< <<Fields(c)[i][1], x>> >> \o rest :
              x \in ValueSamples(Fields(c)[i][2]), rest \in Instances(c, i + 1)}

\* build of an instance of a schema, then parse of the bytes built.
InitMessage ==
    \E c \in Catalog : \E pairs \in Instances(c, 1) :
        Start(c, <<"build", "parse">>, MappingV(pairs), NoneV, <<>>, MaxRecursion)

\* The complete encodings tried for a field of class c in a stream handed to
\* the parse of a schema.
RECURSIVE FieldWires(_)
RECURSIVE RecordWires(_, _)
FieldWires(c) ==
    CASE Fields(c) # <<>> -> RecordWires(c, 1)
      [] c = "VLQ" -> {<<5>>, <<129, 0>>}
      [] c = "UBInt16" -> {<<1, 2>>}
      [] c = "UBInt32" -> {<<0, 1, 2, 3>>}
      [] c = "SBInt32" -> {<<255, 255, 255, 254>>}
      [] c = "BFloat32" -> {<<63, 128, 0, 0>>, <<192, 73, 15, 219>>}
      [] c = "Byte" -> {<<0>>, <<7>>}
      [] c = "Flag" -> {<<1>>}
      [] c = "StarByteArray" -> {<<2, 1, 2>>}
      [] c = "StarString" -> {<<1, 107>>, <<2, 195, 169>>}
      [] c = "UUID" -> Samples("UUID")
      [] c = "Variant" -> {<<1>>, <<7, 1, 1, 107, 4, 10>>}
      [] c = "StringSet" -> {<<0>>, <<1, 1, 97>>}
      [] c = "WorldChunks" -> {<<0>>, <<1, 1, 9, 0, 2, 8, 8>>}
RecordWires(c, i) ==
    IF i > Len(Fields(c)) THEN {<<>>}
    ELSE {w \o rest : w \in FieldWires(Fields(c)[i][2]), rest \in RecordWires(c, i + 1)}

\* The classes with fields whose parse is tried.
Records == Catalog \cup {"SpawnCoordinates"}

\* parse of a complete encoding of a schema, with no context given.
InitRecord ==
    \E c \in Records : \E w \in RecordWires(c, 1) :
        Start(c, <<"parse">>, NoneV, NoneV, w, MaxRecursion)

Init ==
    \/ InitMessage
    \/ InitRecord
    \/ InitVariant
    \/ InitGreedy
    \/ InitVLQ
    \/ InitSignedVLQ
    \/ InitLeaf
    \/ InitDecode
    \/ InitBadTag
    \/ InitPacket

\* cls.parse(wire)
Parse ==
    /\ plan # <<>>
    /\ Head(plan) = "parse"
    /\ \E r \in {Struct_parse(cls, wire, 0, heap, 0, 0)} :
           /\ exc' = r.exc
           /\ heap' = r.h
           /\ pos' = r.p
           /\ IF r.exc = "none"
              THEN /\ decoded' = Append(decoded, r.v)
                   /\ obj' = r.v
                   /\ plan' = Tail(plan)
              ELSE /\ plan' = <<>>
                   /\ UNCHANGED <<decoded, obj>>
    /\ UNCHANGED <<cls, ctxArg, wire, limit, input, built>>

\* cls.build(obj, ctx=ctxArg)
Build ==
    /\ plan # <<>>
    /\ Head(plan) = "build"
    /\ \E r \in {Struct_build(cls, obj, NoneV, ctxArg)} :
           /\ exc' = r.exc
           /\ IF r.exc = "none"
              THEN /\ built' = Append(built, r.b)
                   /\ wire' = r.b
                   /\ plan' = Tail(plan)
              ELSE /\ plan' = <<>>
                   /\ UNCHANGED <<built, wire>>
    /\ UNCHANGED <<cls, obj, ctxArg, pos, heap, limit, input, decoded>>

Next == Parse \/ Build

Spec == Init /\ [][Next]_vars

-----------------------------------------------------------------------------
(* The claims.                                                             *)

\* The run called build and then parse on the value input.obj.
IsRoundTrip(c) == input.cls = c /\ input.plan = <<"build", "parse">>

\* C1: for every n >= 0 tried, VLQ.build(n) sets the continuation bit 0x80 on
\* every byte but the last, is the single byte 0x00 for n = 0, and VLQ.parse of
\* it returns n, having consumed exactly those bytes.
C1_VLQRoundTrip ==
    (IsRoundTrip("VLQ") /\ input.obj.v >= 0) =>
        /\ exc = "none"
        /\ Len(built) >= 1 =>
              LET b == built[1]
              IN  /\ Len(b) >= 1
                  /\ \A i \in 1..Len(b) : HasBit80(b[i]) <=> (i < Len(b))
                  /\ (input.obj.v = 0) => (b = <<0>>)
        /\ Len(decoded) >= 1 =>
              /\ decoded[1] = input.obj
              /\ pos = Len(built[1])

\* A number that takes four bytes went through build and parse.
C1_Witness ==
    /\ IsRoundTrip("VLQ")
    /\ plan = <<>>
    /\ Len(decoded) = 1
    /\ Len(built[1]) = 4
    /\ decoded[1] = input.obj

\* C2: for every n tried, SignedVLQ.build(n) is the VLQ of 2|n| (n >= 0) or of
\* 2|n| - 1 (n < 0); SignedVLQ.parse maps the even u it reads to u / 2 and the
\* odd u to -((u div 2) + 1); and the round trip returns n.
C2_SignedVLQRoundTrip ==
    IsRoundTrip("SignedVLQ") =>
        LET n == input.obj.v
            m == IF n >= 0 THEN 2 * Abs(n) ELSE 2 * Abs(n) - 1
        IN  /\ exc = "none"
            /\ Len(built) >= 1 => built[1] = VLQ_build(IntV(m)).b
            /\ Len(decoded) >= 1 =>
                  LET u == VLQ_parse(built[1], 0).v.v
                  IN  /\ decoded[1].v = IF u % 2 = 0 THEN u \div 2
                                        ELSE -((u \div 2) + 1)
                      /\ decoded[1] = input.obj
                      /\ pos = Len(built[1])

\* A negative number went through build and parse.
C2_Witness ==
    /\ IsRoundTrip("SignedVLQ")
    /\ plan = <<>>
    /\ Len(decoded) = 1
    /\ input.obj.v < -64
    /\ decoded[1] = input.obj

\* The first call of the run has been made.
FirstCallDone == plan # input.plan

\* C4: for every class with both directions and every value v its parse can
\* return, build(v) succeeds and parse(build(v)) returns v again.
C4_LeafRoundTrip ==
    (input.cls \in LeafBoth /\ input.plan = <<"parse", "build", "parse">>
        /\ Len(decoded) >= 1) =>
        /\ exc = "none"
        /\ Len(decoded) = 2 => decoded[2] = decoded[1]

\* The width of a fixed-width class.
Width(c) ==
    CASE c \in {"UBInt16", "SBInt16"} -> 2
      [] c \in {"UBInt32", "SBInt32", "BFloat32"} -> 4
      [] c = "BDouble" -> 8
      [] c = "Byte" -> 1
      [] c = "UUID" -> 16

FixedWidth ==
    {"UBInt16", "SBInt16", "UBInt32", "SBInt32", "BFloat32", "BDouble", "Byte", "UUID"}

\* The stream w ends, from position p on, inside a VLQ: every byte left has
\* its continuation bit set.
EndsInVLQ(w, p) == \A i \in (p + 1)..Len(w) : HasBit80(w[i])

\* The length prefix at position p of w is complete, and fewer bytes remain
\* after it than it announces.
CutByteString(w, p) ==
    /\ ~EndsInVLQ(w, p)
    /\ LET l == VLQ_parse(w, p) IN Len(w) - l.p < l.v.v

\* The stream w ends before the n strings that start at position p are
\* complete: one of them is cut, or none of its bytes is left.
RECURSIVE CutStrings(_, _, _)
CutStrings(w, p, n) ==
    /\ n > 0
    /\ \/ p >= Len(w)
       \/ CutByteString(w, p)
       \/ /\ ~EndsInVLQ(w, p)
          /\ LET l == VLQ_parse(w, p) IN CutStrings(w, l.p + l.v.v, n - 1)

\* The stream w ends before a value of class c is complete.
Incomplete(c, w) ==
    CASE c \in FixedWidth -> Len(w) < Width(c)
      [] c \in {"StarByteArray", "StarString"} -> CutByteString(w, 0)
      [] c = "StringSet" ->
            /\ ~EndsInVLQ(w, 0)
            /\ LET l == VLQ_parse(w, 0) IN CutStrings(w, l.p, l.v.v)
      [] c = "VLQ" -> w # <<>> /\ EndsInVLQ(w, 0)
      [] OTHER -> FALSE

\* The integer held by the 7-bit groups of w.
RECURSIVE Groups(_)
Groups(w) ==
    IF w = <<>> THEN 0 ELSE Groups(SubSeq(w, 1, Len(w) - 1)) * 128 + (w[Len(w)] % 128)

\* C6: a parse of a fixed-width or length-prefixed class on a stream that ends
\* before the value is complete raises; only VLQ returns a value there, the
\* integer accumulated so far.
C6_TruncationFails ==
    (FirstCallDone /\ Head(input.plan) = "parse" /\ Incomplete(input.cls, input.wire)) =>
        IF input.cls = "VLQ"
        THEN Len(decoded) >= 1 /\ decoded[1] = IntV(Groups(input.wire))
        ELSE Len(decoded) = 0 /\ exc # "none"

\* C7: Variant.parse of a stream whose tag byte is not in 1..7, or that has no
\* tag byte at all, raises and returns no value.
C7_UnknownTagFails ==
    (input.cls = "Variant" /\ FirstCallDone
        /\ (input.wire = <<>> \/ input.wire[1] \notin 1..7)) =>
        Len(decoded) = 0 /\ exc # "none"

\* The compressed flag is set in the context handed to build.
Compressed ==
    /\ input.ctx.t = "mapping"
    /\ HasKey(input.ctx.v, "compressed")
    /\ Truthy(Lookup(input.ctx.v, "compressed"))

\* C10: BasePacket.build({id, data}) is the id byte, then a SignedVLQ whose
\* magnitude is the number of payload bytes that follow it, negative exactly
\* when the context is compressed and the payload is not empty, then the
\* payload: the bytes of data, or the UTF-8 encoding of a text.
C10_EnvelopeLength ==
    (input.cls = "BasePacket" /\ FirstCallDone) =>
        /\ exc = "none"
        /\ Len(built) = 1
        /\ LET b == built[1]
               data == Lookup(input.obj.v, "data")
               payload == IF data.t = "bytes" THEN data.v
                          ELSE Utf8Encode(data.v, 1, <<>>).b
               l == SignedVLQ_parse(b, 1)
           IN  /\ Len(b) >= 2
               /\ b[1] = Lookup(input.obj.v, "id").v
               /\ Abs(l.v.v) = Len(b) - l.p
               /\ SubSeq(b, l.p + 1, Len(b)) = payload
               /\ (l.v.v < 0) <=> (Compressed /\ payload # <<>>)
               /\ (input.obj.v = << <<"id", IntV(0)>>, <<"data", BytesV(<<>>)>> >>
                     /\ input.ctx = NoneV) => b = <<0, 0>>

\* The run parses the encoding of the Variant value input.obj.
IsVariantDecode == input.cls = "Variant" /\ input.wire = VariantWire(input.obj)

\* C8: Variant.parse of the encoding of a value returns that value (null, a
\* scalar double, a flag, an integer, a string, a sequence, a map) and
\* consumes exactly the encoding; [0x07][VLQ 1]["k"][0x04][SignedVLQ 5] gives
\* {"k": 5} and [0x02][8 bytes] gives the double in those bytes.
C8_VariantDecode ==
    /\ (IsVariantDecode /\ FirstCallDone) =>
          /\ exc = "none"
          /\ Len(decoded) = 1
          /\ decoded[1] = input.obj
          /\ pos = Len(input.wire)
    /\ (input.cls = "Variant" /\ FirstCallDone
           /\ input.wire = <<7, 1, 1, 107, 4, 10>>) =>
          decoded = <<DictV(<< <<StrV(<<107>>), IntV(5)>> >>)>>
    /\ (input.cls = "Variant" /\ FirstCallDone
           /\ input.wire = <<2, 64, 4, 0, 0, 0, 0, 0, 0>>) =>
          decoded = <<FloatV(<<64, 4, 0, 0, 0, 0, 0, 0>>)>>

\* C9: parse of a repetition class on a stream of exactly k complete element
\* encodings returns the k decoded elements in stream order and leaves
\* nothing in the stream.
C9_GreedyDecode ==
    (IsGreedy(input.cls) /\ FirstCallDone) =>
        /\ exc = "none"
        /\ Len(decoded) = 1
        /\ decoded[1] = input.obj
        /\ PeekLen(input.wire, pos) = 0

\* The names of the fields of class c, in declaration order.
FieldNames(c) == [i \in 1..Len(Fields(c)) |-> Fields(c)[i][1]]

\* The encodings of the fields of instance pairs of class c, from field i on,
\* one after the other in declaration order.
RECURSIVE FieldsWire(_, _, _)
FieldsWire(c, i, pairs) ==
    IF i > Len(Fields(c)) THEN <<>>
    ELSE Struct_build(Fields(c)[i][2], Lookup(pairs, Fields(c)[i][1]), NoneV, NoneV).b
             \o FieldsWire(c, i + 1, pairs)

\* C3: for every schema of the catalog and every instance tried, build
\* succeeds and gives the fields' encodings in declaration order, and parse of
\* those bytes succeeds and returns the instance, field for field.
C3_MessageRoundTrip ==
    (input.cls \in Catalog /\ input.plan = <<"build", "parse">> /\ FirstCallDone) =>
        /\ exc = "none"
        /\ Len(built) = 1
        /\ built[1] = FieldsWire(input.cls, 1, input.obj.v)
        /\ Len(decoded) = 1 =>
              /\ decoded[1].t = "ref"
              /\ LET m == heap[decoded[1].v]
                 IN  /\ Keys(m) = FieldNames(input.cls)
                     /\ \A i \in 1..Len(m) : m[i][2] = input.obj.v[i][2]

\* The position in stream s after the fields of class c, from field i on,
\* that start at position p.
RECURSIVE EndOf(_, _, _, _)
EndOf(c, i, s, p) ==
    IF i > Len(Fields(c)) THEN p
    ELSE LET f == Fields(c)[i][2]
         IN  IF Fields(f) = <<>>
             THEN EndOf(c, i + 1, s, LeafParse(f, s, p).p)
             ELSE EndOf(c, i + 1, s, EndOf(f, 1, s, p))

\* The dict id of heap h binds the fields of class c, from field i on, to
\* what their classes decode from stream s at position p: a field without
\* fields of its own to the value of its _parse, a field that is a record to
\* another dict, which binds exactly that record's fields.
RECURSIVE FieldsBound(_, _, _, _, _, _)
FieldsBound(h, c, i, id, s, p) ==
    \/ i > Len(Fields(c))
    \/ LET f == Fields(c)[i][2]
           x == h[id][i][2]
       IN  /\ IF Fields(f) = <<>>
              THEN x = LeafParse(f, s, p).v
              ELSE /\ x.t = "ref"
                   /\ x.v # id
                   /\ Keys(h[x.v]) = FieldNames(f)
                   /\ FieldsBound(h, f, 1, x.v, s, p)
           /\ FieldsBound(h, c, i + 1, id, s,
                  IF Fields(f) = <<>> THEN LeafParse(f, s, p).p ELSE EndOf(f, 1, s, p))

\* C5: parse of a record with no context given returns a dict whose keys are
\* the record's field names in declaration order, each bound to the value
\* its class decoded; a nested record is bound to a dict of its own, and the
\* result does not hold itself.
C5_RecordDecode ==
    (input.cls \in Records /\ input.plan = <<"parse">> /\ FirstCallDone) =>
        /\ exc = "none"
        /\ Len(decoded) = 1
        /\ decoded[1].t = "ref"
        /\ LET id == decoded[1].v
           IN  /\ Keys(heap[id]) = FieldNames(input.cls)
               /\ \A i \in 1..Len(heap[id]) : heap[id][i][2] # RefV(id)
               /\ FieldsBound(heap, input.cls, 1, id, input.wire, 0)
        /\ pos = Len(input.wire)

=============================================================================
